---- MODULE Spec2Model ----
(***************************************************************************)
(* UserService (src/src/services/user/userService.js): login, signUp,      *)
(* logout, resignToken, getUser, editUser, deleteUser over a Sequelize     *)
(* User store (paranoid, i.e. soft-deleting), a token issuer and a redis   *)
(* session cache.  Every async operation is cut at its awaits: one action  *)
(* per collaborator call that completes, carrying the synchronous code     *)
(* that follows it up to the next await or return.                         *)
(***************************************************************************)
EXTENDS Integers, Sequences, FiniteSets, TLC

----------------------------------------------------------------------------
(* Bounds and input domains *)

MaxUsers == 2

Procs == {"c1", "c2"}
Main == "c1"

Emails == {"e1", "e2"}
Nicknames == {"n1", "n2"}
Passwords == {"p1", "p2"}
Mbtis == {"m1"}

----------------------------------------------------------------------------
(* JavaScript values *)

null == "null"
undefined == "undefined"

\* null where an object is expected (a query that finds no row, a body without data)
none == [isNull |-> TRUE]

\* !v
Falsy(v) == v \in {null, undefined, ""}

\* obj[key]: a property the object does not have reads as undefined
Get(obj, key) == IF key \in DOMAIN obj THEN obj[key] ELSE undefined

\* obj[key] = v: an assignment creates the property when it is missing
Put(obj, key, v) == [k \in DOMAIN obj \cup {key} |-> IF k = key THEN v ELSE obj[k]]

----------------------------------------------------------------------------
(* Imported constants and response builders *)

statusCode ==
  [OK |-> "200", NO_CONTENT |-> "204", BAD_REQUEST |-> "400",
   UNAUTHORIZED |-> "401", DB_ERROR |-> "500"]

message ==
  [SUCCESS |-> "SUCCESS", INVALID_USER_INFO |-> "INVALID_USER_INFO",
   ALREADY_EXIST_EMAIL |-> "ALREADY_EXIST_EMAIL",
   ALREADY_EXIST_NICKNAME |-> "ALREADY_EXIST_NICKNAME",
   INTERNAL_SERVER_ERROR |-> "INTERNAL_SERVER_ERROR",
   FORBIDDEN |-> "FORBIDDEN",
   REFRESH_TOKEN_UNNECESSARY |-> "REFRESH_TOKEN_UNNECESSARY",
   NULL_VALUE |-> "NULL_VALUE", DB_ERROR |-> "DB_ERROR",
   BAD_REQUEST |-> "BAD_REQUEST"]

resignTokenStatus ==
  [RESIGN_ACCESS_TOKEN |-> "RESIGN_ACCESS_TOKEN", UNAUTHORIZED |-> "UNAUTHORIZED",
   UNNECESSARY |-> "UNNECESSARY"]

\* the values statusCode.SUCCESS (userService.js:128) can have: statusCode is
\* used with OK everywhere else, so SUCCESS is either an alias of OK or missing
StatusSuccessValues == {statusCode.OK, undefined}

response(status, msg, data) ==
  [status |-> status, success |-> TRUE, message |-> msg, data |-> data]

errResponse(status, msg) ==
  [status |-> status, success |-> FALSE, message |-> msg, data |-> none]

TokenData(accessToken, refreshToken) ==
  [accessToken |-> accessToken, refreshToken |-> refreshToken]

loginResponse(accessToken, refreshToken) == TokenData(accessToken, refreshToken)
signUpResponse(accessToken, refreshToken) == TokenData(accessToken, refreshToken)
resignTokenResponse(accessToken, refreshToken) == TokenData(accessToken, refreshToken)

\* signTokens(userId): a token pair issued for userId
Token(type, sub, gen) == [type |-> type, sub |-> sub, gen |-> gen]
signTokens(userId) ==
  [accessToken |-> Token("access", userId, "1"),
   refreshToken |-> Token("refresh", userId, "1")]

\* bcrypt.hashSync(password, 10) and bcrypt.compareSync(password, hash)
hashSync(password) == "$2b$10$" \o password
compareSync(password, encoded) == encoded = hashSync(password)

----------------------------------------------------------------------------
(* What a call hands back to its caller *)

\* return [status, body]
Pair(status, body) == [shape |-> "pair", first |-> status, body |-> body]
\* return body
Bare(body) == [shape |-> "body", first |-> null, body |-> body]
\* the function ends without a return statement
NoValue == [shape |-> "undefined", first |-> null, body |-> errResponse(undefined, undefined)]
\* the promise is rejected: the failure propagates to the caller
Rejected == [shape |-> "throw", first |-> null, body |-> errResponse(undefined, undefined)]
NoRet == [shape |-> "none", first |-> null, body |-> errResponse(undefined, undefined)]

----------------------------------------------------------------------------
(* The User store: rows in insertion order, the primary key autoincrements *)

VARIABLES users, pre, call, statusSUCCESS

vars == <<users, pre, call, statusSUCCESS>>

Row(id, email, password, nickname) ==
  [id |-> id, email |-> email, password |-> password, nickname |-> nickname,
   mbti |-> null, deletedAt |-> null]

Rows(us) == {us[i] : i \in 1..Len(us)}

\* paranoid: true => queries see only the rows not marked deleted
Live(us) == {r \in Rows(us) : r.deletedAt = null}

\* User.findOne({where: {[field]: value}}): the candidates; no row is null
findOne(us, field, value) ==
  LET hit == {r \in Live(us) : r[field] = value}
  IN  IF hit = {} THEN {none} ELSE hit

\* attributes: [...]: the instance carries only the selected columns
Select(r, attributes) == IF r = none THEN none ELSE [a \in attributes |-> r[a]]

\* User.findByPk(userId)
findByPk(us, userId) ==
  LET hit == {r \in Live(us) : r.id = userId}
  IN  IF hit = {} THEN {none} ELSE hit

\* User.create({email, password, nickname})
create(us, email, password, nickname) ==
  Append(us, Row(ToString(Len(us) + 1), email, password, nickname))

Idle ==
  [op |-> "none", pc |-> "idle", args |-> <<>>, loc |-> <<>>, ret |-> NoRet,
   threw |-> FALSE]

Init ==
  /\ users = <<>>
  /\ pre = <<>>
  /\ call = [p \in Procs |-> Idle]
  /\ statusSUCCESS \in StatusSuccessValues

\* a call that runs to its first await
Start(p, op, args, loc, pc) ==
  /\ call[p].pc = "idle"
  /\ call' = [call EXCEPT ![p] =
       [op |-> op, pc |-> pc, args |-> args, loc |-> loc, ret |-> NoRet, threw |-> FALSE]]
  /\ pre' = users

\* a call that returns (or throws) before any await
StartAndFinish(p, op, args, loc, ret, threw) ==
  /\ call[p].pc = "idle"
  /\ call' = [call EXCEPT ![p] =
       [op |-> op, pc |-> "done", args |-> args, loc |-> loc, ret |-> ret, threw |-> threw]]
  /\ pre' = users

Finish(p, ret, loc) ==
  call' = [call EXCEPT ![p].pc = "done", ![p].ret = ret, ![p].loc = loc]

Caught(p, ret) ==
  call' = [call EXCEPT ![p].pc = "done", ![p].ret = ret, ![p].threw = TRUE]

Goto(p, pc, loc) ==
  call' = [call EXCEPT ![p].pc = pc, ![p].loc = loc]

At(p, op, pc) == call[p].op = op /\ call[p].pc = pc

----------------------------------------------------------------------------
(* login(email, password) *)

InvalidUserInfo ==
  Pair(statusCode.BAD_REQUEST, errResponse(statusCode.BAD_REQUEST, message.INVALID_USER_INFO))

InternalError ==
  Pair(statusCode.DB_ERROR, errResponse(statusCode.DB_ERROR, message.INTERNAL_SERVER_ERROR))

\* the checks with the password comparison left out
loginRejectsUnknownOnly(user, password) == user = none

\* the two checks between findOne and signTokens
loginRejects(user, password) ==
  \/ user = none
  \/ ~compareSync(password, user.password)

CallLogin(p) ==
  /\ call[p].pc = "idle"
  /\ \E email \in Emails, password \in Passwords :
       Start(p, "login", [email |-> email, password |-> password], [user |-> none], "findOne")
  /\ UNCHANGED <<users, statusSUCCESS>>

LoginFindOne(p) ==
  /\ At(p, "login", "findOne")
  /\ \/ \E found \in findOne(users, "email", call[p].args.email) :
          LET user == Select(found, {"id", "password"}) IN
          IF loginRejects(user, call[p].args.password)
            THEN Finish(p, InvalidUserInfo, [user |-> user])
            ELSE Goto(p, "signTokens", [user |-> user])
     \/ Caught(p, InternalError)
  /\ UNCHANGED <<users, pre, statusSUCCESS>>

LoginSignTokens(p) ==
  /\ At(p, "login", "signTokens")
  /\ \/ LET userId == call[p].loc.user.id
            t == signTokens(userId)
            data == loginResponse(t.accessToken, t.refreshToken)
        IN  Finish(p, Pair(statusCode.OK, response(statusCode.OK, message.SUCCESS, data)),
                   call[p].loc)
     \/ Caught(p, InternalError)
  /\ UNCHANGED <<users, pre, statusSUCCESS>>

----------------------------------------------------------------------------
(* signUp(email, password, nickname) *)

AlreadyExist(msg) ==
  Pair(statusCode.BAD_REQUEST, errResponse(statusCode.BAD_REQUEST, msg))

\* signUp calls in flight that may still create a row
Creating == {q \in Procs : call[q].op = "signUp" /\ call[q].pc \in {"findEmail", "findNickname", "create"}}

CallSignUp(p) ==
  /\ call[p].pc = "idle"
  /\ Len(users) + Cardinality(Creating) < MaxUsers
  /\ \E email \in Emails, password \in Passwords, nickname \in Nicknames :
       Start(p, "signUp", [email |-> email, password |-> password, nickname |-> nickname],
             [newUser |-> none], "findEmail")
  /\ UNCHANGED <<users, statusSUCCESS>>

SignUpFindEmail(p) ==
  /\ At(p, "signUp", "findEmail")
  /\ \/ \E isExistEmail \in findOne(users, "email", call[p].args.email) :
          IF isExistEmail # none
            THEN Finish(p, AlreadyExist(message.ALREADY_EXIST_EMAIL), call[p].loc)
            ELSE Goto(p, "findNickname", call[p].loc)
     \/ Caught(p, InternalError)
  /\ UNCHANGED <<users, pre, statusSUCCESS>>

SignUpFindNickname(p) ==
  /\ At(p, "signUp", "findNickname")
  /\ \/ \E isExistNickname \in findOne(users, "nickname", call[p].args.nickname) :
          IF isExistNickname # none
            THEN Finish(p, AlreadyExist(message.ALREADY_EXIST_NICKNAME), call[p].loc)
            ELSE Goto(p, "create", call[p].loc)
     \/ Caught(p, InternalError)
  /\ UNCHANGED <<users, pre, statusSUCCESS>>

SignUpCreate(p) ==
  /\ At(p, "signUp", "create")
  /\ \/ LET encryptedPassword == hashSync(call[p].args.password)
            us == create(users, call[p].args.email, encryptedPassword, call[p].args.nickname)
        IN  /\ users' = us
            /\ Goto(p, "signTokens", [newUser |-> us[Len(us)]])
     \/ Caught(p, InternalError) /\ UNCHANGED users
  /\ UNCHANGED <<pre, statusSUCCESS>>

SignUpSignTokens(p) ==
  /\ At(p, "signUp", "signTokens")
  /\ \/ LET userId == Get(call[p].loc.newUser, "user_id")
            t == signTokens(userId)
            data == signUpResponse(t.accessToken, t.refreshToken)
        IN  Finish(p, Pair(statusCode.OK, response(statusCode.OK, message.SUCCESS, data)),
                   call[p].loc)
     \/ Caught(p, InternalError)
  /\ UNCHANGED <<users, pre, statusSUCCESS>>

----------------------------------------------------------------------------
(* logout(userId) *)

UserIds == {ToString(i) : i \in 1..(MaxUsers + 1)}

\* redisClient.del(String(userId)) is neither awaited nor inside a try: it
\* succeeds, throws as it is called, or returns a promise that rejects later
DelOutcomes == {"ok", "throws", "rejects"}

logoutReturn(del) ==
  IF del = "throws" THEN Rejected
  ELSE Pair(statusCode.OK, response(statusCode.OK, message.SUCCESS, none))

CallLogout(p) ==
  /\ call[p].pc = "idle"
  /\ \E userId \in UserIds, del \in DelOutcomes :
       StartAndFinish(p, "logout", [userId |-> userId], [del |-> del],
                      logoutReturn(del), del # "ok")
  /\ UNCHANGED <<users, statusSUCCESS>>

----------------------------------------------------------------------------
(* resignToken(accessToken, refreshToken) *)

TokenSubjects == {"1", undefined}

\* the outcomes of resignAccessToken(accessToken, refreshToken)
ResignOutcomes ==
  {resignTokenStatus.RESIGN_ACCESS_TOKEN, resignTokenStatus.UNAUTHORIZED,
   resignTokenStatus.UNNECESSARY}

resignAccessToken(accessToken, result) ==
  IF result = resignTokenStatus.RESIGN_ACCESS_TOKEN
    THEN [result |-> result, newAccessToken |-> Token("access", accessToken.sub, "2")]
    ELSE [result |-> result, newAccessToken |-> none]

\* the chain with its last branch missing
resignTokenReturnTwoBranches(result, newAccessToken, refreshToken) ==
  IF result = resignTokenStatus.RESIGN_ACCESS_TOKEN
    THEN LET data == resignTokenResponse(newAccessToken, refreshToken)
         IN  Pair(statusCode.OK, response(statusSUCCESS, message.SUCCESS, data))
  ELSE IF result = resignTokenStatus.UNAUTHORIZED
    THEN Pair(statusCode.UNAUTHORIZED, errResponse(statusCode.UNAUTHORIZED, message.FORBIDDEN))
  ELSE NoValue

\* the if / else if chain on result
resignTokenReturn(result, newAccessToken, refreshToken) ==
  IF result = resignTokenStatus.RESIGN_ACCESS_TOKEN
    THEN LET data == resignTokenResponse(newAccessToken, refreshToken)
         IN  Pair(statusCode.OK, response(statusSUCCESS, message.SUCCESS, data))
  ELSE IF result = resignTokenStatus.UNAUTHORIZED
    THEN Pair(statusCode.UNAUTHORIZED, errResponse(statusCode.UNAUTHORIZED, message.FORBIDDEN))
  ELSE IF result = resignTokenStatus.UNNECESSARY
    THEN Pair(statusCode.BAD_REQUEST,
              errResponse(statusCode.BAD_REQUEST, message.REFRESH_TOKEN_UNNECESSARY))
  ELSE NoValue

CallResignToken(p) ==
  /\ call[p].pc = "idle"
  /\ \E sub \in TokenSubjects :
       Start(p, "resignToken",
             [accessToken |-> Token("access", sub, "1"), refreshToken |-> Token("refresh", sub, "1")],
             [result |-> null, newAccessToken |-> none], "resignAccessToken")
  /\ UNCHANGED <<users, statusSUCCESS>>

ResignTokenDecided(p) ==
  /\ At(p, "resignToken", "resignAccessToken")
  /\ \/ \E result \in ResignOutcomes :
          LET d == resignAccessToken(call[p].args.accessToken, result)
          IN  Finish(p, resignTokenReturn(d.result, d.newAccessToken, call[p].args.refreshToken), d)
     \/ Caught(p, Rejected)
  /\ UNCHANGED <<users, pre, statusSUCCESS>>

----------------------------------------------------------------------------
(* getUser(userId) *)

DbError == Bare(errResponse(statusCode.DB_ERROR, message.DB_ERROR))

CallGetUser(p) ==
  /\ call[p].pc = "idle"
  /\ \E userId \in UserIds :
       Start(p, "getUser", [userId |-> userId], [user |-> none], "findByPk")
  /\ UNCHANGED <<users, statusSUCCESS>>

GetUserFindByPk(p) ==
  /\ At(p, "getUser", "findByPk")
  /\ \/ \E user \in findByPk(users, call[p].args.userId) :
          IF user # none
            THEN Finish(p, Bare(response(statusCode.OK, message.SUCCESS, user)), [user |-> user])
            ELSE Finish(p, Bare(errResponse(statusCode.NO_CONTENT, message.NULL_VALUE)),
                        [user |-> user])
     \/ Caught(p, DbError)
  /\ UNCHANGED <<users, pre, statusSUCCESS>>

----------------------------------------------------------------------------
(* editUser(user, newNickname = null, newMbti = null, newPassword = null) *)

\* the keys of dataToEdit, in the order for..in visits them
EditKeys == <<"newNickname", "newMbti", "newPassword">>

\* the field-diff loop over the first n keys: the user object and updatedData after it
RECURSIVE editLoop(_, _, _)
editLoop(user, dataToEdit, n) ==
  IF n = 0 THEN [user |-> user, updatedData |-> <<>>]
  ELSE LET before == editLoop(user, dataToEdit, n - 1)
           key == EditKeys[n]
       IN  IF Get(before.user, key) = dataToEdit[key] \/ Falsy(dataToEdit[key])
             THEN before
             ELSE [user |-> Put(before.user, key, dataToEdit[key]),
                   updatedData |-> Append(before.updatedData, <<key, dataToEdit[key]>>)]

\* user.save(): UPDATE of the row with the instance's primary key from the
\* instance's model attributes
save(us, user) ==
  [i \in 1..Len(us) |->
     IF us[i].id = user.id
       THEN [us[i] EXCEPT !.nickname = user.nickname, !.mbti = user.mbti,
                          !.password = user.password]
       ELSE us[i]]

CallEditUser(p) ==
  /\ call[p].pc = "idle"
  /\ \E user \in Live(users), newNickname \in Nicknames \cup {null},
        newMbti \in Mbtis \cup {null}, newPassword \in Passwords \cup {null} :
       LET dataToEdit == [newNickname |-> newNickname, newMbti |-> newMbti,
                          newPassword |-> newPassword]
           after == editLoop(user, dataToEdit, Len(EditKeys))
           args == [user |-> user, newNickname |-> newNickname, newMbti |-> newMbti,
                    newPassword |-> newPassword]
       IN  IF Len(after.updatedData) = 0
             THEN StartAndFinish(p, "editUser", args, after,
                                 Bare(errResponse(statusCode.BAD_REQUEST, message.BAD_REQUEST)),
                                 FALSE)
             ELSE Start(p, "editUser", args, after, "save")
  /\ UNCHANGED <<users, statusSUCCESS>>

EditUserSave(p) ==
  /\ At(p, "editUser", "save")
  /\ \/ /\ users' = save(users, call[p].loc.user)
        /\ Finish(p, Bare(response(statusCode.OK, message.SUCCESS, none)), call[p].loc)
     \/ Caught(p, DbError) /\ UNCHANGED users
  /\ UNCHANGED <<pre, statusSUCCESS>>

----------------------------------------------------------------------------
(* deleteUser(user) *)

\* a destroy that removes the row, as on a model that is not paranoid
destroyHard(us, user) == SelectSeq(us, LAMBDA r : r.id # user.id)

\* user.destroy(...) on a paranoid model: the row of the instance's primary
\* key is marked deleted (the where option of an instance destroy is not used)
destroy(us, user) ==
  [i \in 1..Len(us) |->
     IF us[i].id = user.id THEN [us[i] EXCEPT !.deletedAt = "now"] ELSE us[i]]

CallDeleteUser(p) ==
  /\ call[p].pc = "idle"
  /\ \E user \in Live(users) :
       Start(p, "deleteUser", [user |-> user], [user |-> user], "destroy")
  /\ UNCHANGED <<users, statusSUCCESS>>

DeleteUserDestroy(p) ==
  /\ At(p, "deleteUser", "destroy")
  /\ \/ LET user == [call[p].loc.user EXCEPT !.deletedAt = "now"]
        IN  /\ users' = destroy(users, call[p].loc.user)
            /\ Finish(p, Bare(response(statusCode.OK, message.SUCCESS, [deleted |-> user])),
                      [user |-> user])
     \/ Caught(p, DbError) /\ UNCHANGED users
  /\ UNCHANGED <<pre, statusSUCCESS>>

----------------------------------------------------------------------------
(* The caller takes the result *)

Return(p) ==
  /\ call[p].pc = "done"
  /\ call' = [call EXCEPT ![p] = Idle]
  /\ pre' = users
  /\ UNCHANGED <<users, statusSUCCESS>>

\* one call at a time: each operation from its call to its result
Next ==
  \/ CallLogin(Main) \/ LoginFindOne(Main) \/ LoginSignTokens(Main)
  \/ CallSignUp(Main) \/ SignUpFindEmail(Main) \/ SignUpFindNickname(Main)
  \/ SignUpCreate(Main) \/ SignUpSignTokens(Main)
  \/ CallLogout(Main)
  \/ CallResignToken(Main) \/ ResignTokenDecided(Main)
  \/ CallGetUser(Main) \/ GetUserFindByPk(Main)
  \/ CallEditUser(Main) \/ EditUserSave(Main)
  \/ CallDeleteUser(Main) \/ DeleteUserDestroy(Main)
  \/ Return(Main)

Spec == Init /\ [][Next]_vars

\* concurrent signUp calls: the steps of any two calls interleave at their awaits
NextSignUps ==
  \E p \in Procs :
    \/ CallSignUp(p) \/ SignUpFindEmail(p) \/ SignUpFindNickname(p)
    \/ SignUpCreate(p) \/ SignUpSignTokens(p)
    \/ Return(p)

SpecSignUps == Init /\ [][NextSignUps]_vars

----------------------------------------------------------------------------
(* Properties *)

\* the call under observation in Spec, and whether it has produced its result
cur == call[Main]
Done(op) == cur.op = op /\ cur.pc = "done"
Responded == cur.ret.shape \in {"pair", "body"}

\* the row of the store with a primary key
RowOf(us, id) == CHOOSE r \in Rows(us) : r.id = id

\* C1: under any interleaving of concurrent signUp calls, no two users of the
\* store have the same email and no two have the same nickname
C1_UniqueEmailAndNickname ==
  \A i, j \in 1..Len(users) :
    (i # j /\ users[i].deletedAt = null /\ users[j].deletedAt = null)
      => (users[i].email # users[j].email /\ users[i].nickname # users[j].nickname)

\* C2: signUp answers 400 ALREADY_EXIST_EMAIL when the email is taken, else 400
\* ALREADY_EXIST_NICKNAME when the nickname is taken, creating nothing; otherwise
\* it creates exactly one user with the email, the nickname and the hashed
\* password and answers 200 with the token pair issued for that user's id
C2_SignUpContract ==
  (Done("signUp") /\ ~cur.threw) =>
    IF \E r \in Live(pre) : r.email = cur.args.email
      THEN cur.ret = AlreadyExist(message.ALREADY_EXIST_EMAIL) /\ users = pre
    ELSE IF \E r \in Live(pre) : r.nickname = cur.args.nickname
      THEN cur.ret = AlreadyExist(message.ALREADY_EXIST_NICKNAME) /\ users = pre
    ELSE /\ Len(users) = Len(pre) + 1
         /\ SubSeq(users, 1, Len(pre)) = pre
         /\ LET created == users[Len(users)]
            IN  /\ created.email = cur.args.email
                /\ created.nickname = cur.args.nickname
                /\ created.password = hashSync(cur.args.password)
                /\ cur.ret.shape = "pair"
                /\ cur.ret.first = statusCode.OK
                /\ cur.ret.body.data = signTokens(created.id)

\* the users login(email, password) is right to accept
Accepted(email, password) ==
  {r \in Live(users) : r.email = email /\ compareSync(password, r.password)}

\* C3: login answers 200 with the token pair issued for the matching user's id
\* exactly when a user with the email exists and the password matches its
\* stored hash, and 400 INVALID_USER_INFO without tokens otherwise (a failing
\* collaborator gives the internal-error answer, without tokens); login never
\* changes the user store
C3_LoginContract ==
  /\ cur.op = "login" => users = pre
  /\ Done("login") =>
       LET ok == Accepted(cur.args.email, cur.args.password)
       IN  IF cur.threw THEN cur.ret = InternalError
           ELSE IF ok # {}
             THEN /\ cur.ret.shape = "pair"
                  /\ cur.ret.first = statusCode.OK
                  /\ cur.ret.body.status = statusCode.OK
                  /\ \E r \in ok : cur.ret.body.data = signTokens(r.id)
             ELSE cur.ret = InvalidUserInfo

C3_LoginAccepted ==
  /\ Done("login")
  /\ cur.ret.first = statusCode.OK
  /\ Len(users) = 2

\* every supplied value is absent or equal to the user's current value
NothingToEdit(a) ==
  /\ a.newNickname \in {null, a.user.nickname}
  /\ a.newMbti \in {null, a.user.mbti}
  /\ a.newPassword \in {null, a.user.password}

\* C4: editUser with every supplied value absent or equal to the current value
\* of its field answers 400, does not call save and leaves the user unchanged
C4_EditNothing ==
  (cur.op = "editUser" /\ NothingToEdit(cur.args)) =>
    /\ cur.pc = "done"
    /\ cur.ret.body.status = statusCode.BAD_REQUEST
    /\ Len(cur.loc.updatedData) = 0
    /\ cur.loc.user = cur.args.user
    /\ users = pre

\* the fields whose supplied value differs from the user's current one
EditFields == {"nickname", "mbti", "password"}
Supplied(a, f) ==
  IF f = "nickname" THEN a.newNickname ELSE IF f = "mbti" THEN a.newMbti ELSE a.newPassword
Differing(a) == {f \in EditFields : Supplied(a, f) # null /\ Supplied(a, f) # a.user[f]}

\* C5: editUser with exactly one supplied value that differs from the current
\* one persists it in that field of the stored user, leaves the user's other
\* fields unchanged and answers 200
C5_EditOneField ==
  (Done("editUser") /\ ~cur.threw /\ Cardinality(Differing(cur.args)) = 1) =>
    LET before == RowOf(pre, cur.args.user.id)
        after == RowOf(users, cur.args.user.id)
    IN  /\ cur.ret.body.status = statusCode.OK
        /\ \A f \in DOMAIN before :
             after[f] = IF f \in Differing(cur.args) THEN Supplied(cur.args, f) ELSE before[f]

\* C6: resignToken maps each outcome of the reissue decision to one response:
\* REISSUE to 200 with the new access token and the caller's refresh token,
\* UNAUTHORIZED to 401, UNNECESSARY to 400, a (status, body) pair every time
C6_ResignTokenMapping ==
  (Done("resignToken") /\ ~cur.threw) =>
    /\ cur.ret.shape = "pair"
    /\ cur.loc.result \in ResignOutcomes
    /\ cur.loc.result = resignTokenStatus.RESIGN_ACCESS_TOKEN =>
         /\ cur.ret.first = statusCode.OK
         /\ cur.ret.body.data = TokenData(cur.loc.newAccessToken, cur.args.refreshToken)
         /\ cur.loc.newAccessToken # cur.args.accessToken
    /\ cur.loc.result = resignTokenStatus.UNAUTHORIZED =>
         cur.ret = Pair(statusCode.UNAUTHORIZED,
                        errResponse(statusCode.UNAUTHORIZED, message.FORBIDDEN))
    /\ cur.loc.result = resignTokenStatus.UNNECESSARY =>
         cur.ret = Pair(statusCode.BAD_REQUEST,
                        errResponse(statusCode.BAD_REQUEST, message.REFRESH_TOKEN_UNNECESSARY))

C6_Reissued ==
  /\ Done("resignToken")
  /\ cur.loc.result = resignTokenStatus.RESIGN_ACCESS_TOKEN
  /\ cur.ret.first = statusCode.OK

\* C7: a successful deleteUser marks the user's record deleted and keeps it in
\* the raw store with all its fields, changes no other record and answers 200
\* with the deleted user as payload
C7_SoftDelete ==
  (Done("deleteUser") /\ ~cur.threw) =>
    /\ Len(users) = Len(pre)
    /\ \A i \in 1..Len(pre) :
         IF pre[i].id = cur.args.user.id
           THEN /\ users[i].deletedAt # null
                /\ users[i] = [pre[i] EXCEPT !.deletedAt = users[i].deletedAt]
           ELSE users[i] = pre[i]
    /\ cur.ret.body.status = statusCode.OK
    /\ cur.ret.body.data.deleted = RowOf(users, cur.args.user.id)

C7_DeletedBesideAnother ==
  /\ Done("deleteUser")
  /\ ~cur.threw
  /\ Len(users) = 2
  /\ \E r \in Live(users) : r.id # cur.args.user.id

\* C8: an operation that answers with an error because a collaborator step
\* failed leaves the user store and the caller's user object as they were
C8_AllOrNothing ==
  (cur.pc = "done" /\ cur.threw /\ Responded) =>
    /\ users = pre
    /\ cur.op \in {"editUser", "deleteUser"} => cur.loc.user = cur.args.user

\* C9: a failure thrown by a collaborator never reaches the caller: the
\* operation answers with the generic internal/database-error response
C9_FailuresAnswered ==
  (cur.pc = "done" /\ cur.threw) =>
    /\ Responded
    /\ cur.ret.body.status = statusCode.DB_ERROR

\* C10: whatever an operation returns is a (status, body) pair whose status
\* equals the status inside the body
C10_PairWithSameStatus ==
  (cur.pc = "done" /\ cur.ret.shape # "throw") =>
    /\ cur.ret.shape = "pair"
    /\ cur.ret.first = cur.ret.body.status

====
